---- MODULE Spec2Model ----
(***************************************************************************)
(* Model of src/snapshot/mod.rs of catalyst-toolbox: Snapshot::            *)
(* from_raw_snapshot (threshold filter, voting purpose filter, fold that   *)
(* distributes each registration's voting power over its delegated keys),  *)
(* Snapshot::to_block0_initials, Snapshot::voting_keys and                 *)
(* Snapshot::contributions_for_voting_key.                                 *)
(*                                                                         *)
(* u64 is modelled as an unsigned integer of U64Bits bits.  Rust integer   *)
(* arithmetic (`*`, `-`, `sum::<u64>()`) panics on overflow when the crate *)
(* is built with overflow checks (debug profile) and wraps modulo 2^64     *)
(* otherwise (release profile); the profile is the variable                *)
(* overflow_checks, fixed when the program starts.                         *)
(***************************************************************************)
EXTENDS Integers, Sequences, FiniteSets, TLC

\* ------------------------------------------------------------------ bounds
U64Bits == 3
MaxRegs == 2
MaxDelegations == 2
MaxWeight == 2

\* ----------------------------------------------------------- program data
CATALYST_VOTING_PURPOSE_TAG == 0

U64Modulus == 2 ^ U64Bits
U64Max == U64Modulus - 1

\* Identifier: voting keys, ordered as the BTreeMap orders them.
Keys == {1, 2}
\* MainnetRewardAddress
RewardAddresses == {"r1", "r2"}
\* Discrimination
Discriminations == {"Test", "Production"}
\* delegation weights (u32 in the source, positive per CIP-36)
Weights == 1..MaxWeight
\* voting_purpose values: the Catalyst tag and one other
Purposes == {CATALYST_VOTING_PURPOSE_TAG, 1}
\* stake_threshold values the builder is called with
Thresholds == {0, 3}

\* Delegations::Legacy(vk)
Legacy(vk) == [tag |-> "Legacy", vk |-> vk, vks |-> <<>>]
\* Delegations::New(vks), vks a sequence of <<vk, weight>>
New(vks) == [tag |-> "New", vk |-> 0, vks |-> vks]

RECURSIVE SeqsUpTo(_, _)
\* all sequences over S of length 1..n
SeqsUpTo(S, n) ==
  IF n = 0 THEN {}
  ELSE LET shorter == SeqsUpTo(S, n - 1)
       IN  {<<x>> : x \in S} \cup shorter
             \cup {Append(s, x) : s \in shorter, x \in S}

DelegationLists == SeqsUpTo(Keys \X Weights, MaxDelegations)

\* KeyContribution
KeyContribution(reward_address, value) ==
  [reward_address |-> reward_address, value |-> value]

\* VotingRegistration (stake_public_key is never read by the builder)
VotingRegistration(reward_address, voting_power, delegations, voting_purpose) ==
  [reward_address |-> reward_address, voting_power |-> voting_power,
   delegations |-> delegations, voting_purpose |-> voting_purpose]

\* Registrations of the single-registration specification: every voting
\* power, every delegation list, every reward address.
AllRegistrations ==
  {VotingRegistration(a, vp, d, p) :
     a \in RewardAddresses, vp \in 0..U64Max,
     d \in {Legacy(k) : k \in Keys} \cup {New(l) : l \in DelegationLists},
     p \in Purposes}

\* Registrations of the multi-registration specification: voting powers
\* below, at and above the thresholds, a legacy and a weighted delegation
\* that share a key, and two registrations of another voting purpose.
FewVotingPowers == {0, 1, 3, U64Max}
FewDelegations == {Legacy(1), New(<< <<1, 2>>, <<2, 1>> >>)}
FewRegistrations ==
  {VotingRegistration(a, vp, d, CATALYST_VOTING_PURPOSE_TAG) :
     a \in RewardAddresses, vp \in FewVotingPowers, d \in FewDelegations}
  \cup {VotingRegistration("r1", 3, Legacy(1), 1),
        VotingRegistration("r2", 0, New(<< <<1, 2>>, <<2, 1>> >>), 1)}

\* ------------------------------------------------------------- arithmetic
\* A fallible result: ok = FALSE is a panic.
Ok(v) == [ok |-> TRUE, val |-> v]
Panic == [ok |-> FALSE, val |-> 0]

\* a * b on u64
MulU64(a, b, checks) ==
  IF a * b <= U64Max THEN Ok(a * b)
  ELSE IF checks THEN Panic ELSE Ok((a * b) % U64Modulus)

\* a + b on u64 (one step of sum::<u64>())
AddU64(a, b, checks) ==
  IF a + b <= U64Max THEN Ok(a + b)
  ELSE IF checks THEN Panic ELSE Ok((a + b) % U64Modulus)

\* a - b on u64
SubU64(a, b, checks) ==
  IF a >= b THEN Ok(a - b)
  ELSE IF checks THEN Panic ELSE Ok((a - b) % U64Modulus)

\* a / b on u64: division by zero panics in every profile
DivU64(a, b) == IF b = 0 THEN Panic ELSE Ok(a \div b)

RECURSIVE SumU64(_, _, _)
\* iter.sum::<u64>() over the sequence s, starting from acc
SumU64(s, acc, checks) ==
  IF s = <<>> THEN Ok(acc)
  ELSE LET r == AddU64(acc, Head(s), checks)
       IN  IF r.ok THEN SumU64(Tail(s), r.val, checks) ELSE Panic

\* ------------------------------------------------------------ the builder
\* BTreeMap::new()
EmptyMap == [k \in {} |-> <<>>]

\* mutant: acc.insert(vk, vec![c]), which replaces the key's list
PushContribution_Insert(acc, vk, c) ==
  [k \in DOMAIN acc \cup {vk} |-> IF k = vk THEN <<c>> ELSE acc[k]]

\* acc.entry(vk).or_default().push(c)
PushContribution(acc, vk, c) ==
  [k \in DOMAIN acc \cup {vk} |->
     IF k = vk
       THEN (IF vk \in DOMAIN acc THEN Append(acc[vk], c) ELSE <<c>>)
       ELSE acc[k]]

\* vks.iter().map(|(_vk, weight)| *weight as u64).sum::<u64>()
TotalWeights(vks, checks) ==
  SumU64([j \in 1..Len(vks) |-> vks[j][2]], 0, checks)

\* (voting_power * weight as u64) / total_weights
Share(voting_power, weight, total_weights, checks) ==
  LET prod == MulU64(voting_power, weight, checks)
  IN  IF prod.ok THEN DivU64(prod.val, total_weights) ELSE Panic

RECURSIVE DistributeOthers(_, _, _, _, _, _, _)
\* The iterator chain over every entry but the last: filter_map drops a
\* zero share, map pushes the contribution, sum adds the shares up.
\* Yields [ok, acc, total].
DistributeOthers(acc, others, voting_power, total_weights, reward_address, total, checks) ==
  IF others = <<>> THEN [ok |-> TRUE, acc |-> acc, total |-> total]
  ELSE
    LET vk == Head(others)[1]
        weight == Head(others)[2]
        value == Share(voting_power, weight, total_weights, checks)
    IN  IF ~value.ok THEN [ok |-> FALSE, acc |-> acc, total |-> total]
        ELSE IF value.val = 0
          THEN DistributeOthers(acc, Tail(others), voting_power,
                                total_weights, reward_address, total, checks)
        ELSE
          LET sum == AddU64(total, value.val, checks)
              pushed == PushContribution(acc, vk,
                          KeyContribution(reward_address, value.val))
          IN  IF ~sum.ok THEN [ok |-> FALSE, acc |-> pushed, total |-> total]
              ELSE DistributeOthers(pushed, Tail(others), voting_power,
                                    total_weights, reward_address, sum.val,
                                    checks)

\* mutant: the legacy arm drops a zero value as the weighted arm does
FoldLegacyArm_SkipZero(acc, reg) ==
  IF reg.voting_power = 0 THEN acc
  ELSE PushContribution(acc, reg.delegations.vk,
                        KeyContribution(reg.reward_address, reg.voting_power))

\* Delegations::Legacy(vk) arm of the fold
FoldLegacyArm(acc, reg) ==
  PushContribution(acc, reg.delegations.vk,
                   KeyContribution(reg.reward_address, reg.voting_power))

\* mutant: the last entry gets the rest even when the rest is 0
FoldNewArm_AlwaysPushLast(acc, reg, checks) ==
  LET vks == reg.delegations.vks
      voting_power == reg.voting_power
      total_weights == TotalWeights(vks, checks)
  IN  IF vks = <<>> \/ ~total_weights.ok THEN [ok |-> FALSE, acc |-> acc]
      ELSE
        LET last == vks[Len(vks)]
            others == DistributeOthers(acc, SubSeq(vks, 1, Len(vks) - 1),
                        voting_power, total_weights.val, reg.reward_address,
                        0, checks)
            rest == SubU64(voting_power, others.total, checks)
        IN  IF ~others.ok \/ ~rest.ok THEN [ok |-> FALSE, acc |-> acc]
            ELSE [ok |-> TRUE,
                  acc |-> PushContribution(others.acc, last[1],
                            KeyContribution(reg.reward_address, rest.val))]

\* mutant: every entry, the last one too, gets its floored share and
\* nobody the rest
FoldNewArm_NoRemainder(acc, reg, checks) ==
  LET vks == reg.delegations.vks
      total_weights == TotalWeights(vks, checks)
  IN  IF vks = <<>> \/ ~total_weights.ok THEN [ok |-> FALSE, acc |-> acc]
      ELSE
        LET all == DistributeOthers(acc, vks, reg.voting_power,
                     total_weights.val, reg.reward_address, 0, checks)
        IN  [ok |-> all.ok, acc |-> IF all.ok THEN all.acc ELSE acc]

\* Delegations::New(vks) arm of the fold.  Yields [ok, acc].
FoldNewArm(acc, reg, checks) ==
  LET vks == reg.delegations.vks
      voting_power == reg.voting_power
      total_weights == TotalWeights(vks, checks)
  IN  IF vks = <<>> \/ ~total_weights.ok THEN [ok |-> FALSE, acc |-> acc]
      ELSE
        LET last == vks[Len(vks)]
            others == DistributeOthers(acc, SubSeq(vks, 1, Len(vks) - 1),
                        voting_power, total_weights.val, reg.reward_address,
                        0, checks)
        IN  IF ~others.ok THEN [ok |-> FALSE, acc |-> acc]
            ELSE IF others.total # voting_power
              THEN LET rest == SubU64(voting_power, others.total, checks)
                   IN  IF ~rest.ok THEN [ok |-> FALSE, acc |-> acc]
                       ELSE [ok |-> TRUE,
                             acc |-> PushContribution(others.acc, last[1],
                                       KeyContribution(reg.reward_address,
                                                       rest.val))]
            ELSE [ok |-> TRUE, acc |-> others.acc]

\* mutant: the threshold is exclusive
PassesThreshold_Strict(reg, threshold) == reg.voting_power > threshold

\* .filter(|reg| reg.voting_power >= stake_threshold)
PassesThreshold(reg, threshold) == reg.voting_power >= threshold

\* mutant: the purpose filter is missing
PassesPurpose_Any(reg) == reg.voting_purpose >= CATALYST_VOTING_PURPOSE_TAG

\* .filter(|reg| reg.voting_purpose == CATALYST_VOTING_PURPOSE_TAG)
PassesPurpose(reg) == reg.voting_purpose = CATALYST_VOTING_PURPOSE_TAG

\* The closure of the fold, after both filters.  Yields [ok, acc].
FoldStep(acc, reg, checks) ==
  IF reg.delegations.tag = "Legacy"
    THEN [ok |-> TRUE, acc |-> FoldLegacyArm(acc, reg)]
    ELSE FoldNewArm(acc, reg, checks)

RECURSIVE FoldFrom(_, _, _, _)
FoldFrom(acc, raw, threshold, checks) ==
  IF raw = <<>> THEN [ok |-> TRUE, acc |-> acc]
  ELSE
    LET reg == Head(raw)
    IN  IF ~PassesThreshold(reg, threshold) \/ ~PassesPurpose(reg)
          THEN FoldFrom(acc, Tail(raw), threshold, checks)
          ELSE LET r == FoldStep(acc, reg, checks)
               IN  IF r.ok THEN FoldFrom(r.acc, Tail(raw), threshold, checks)
                   ELSE [ok |-> FALSE, acc |-> acc]

\* Snapshot::from_raw_snapshot as a function of its arguments.
\* Yields [ok, inner, stake_threshold]; ok = FALSE is a panic.
FromRawSnapshot(raw, threshold, checks) ==
  LET r == FoldFrom(EmptyMap, raw, threshold, checks)
  IN  [ok |-> r.ok, inner |-> IF r.ok THEN r.acc ELSE EmptyMap,
       stake_threshold |-> threshold]

\* ---------------------------------------------------- queries and export
\* Snapshot::voting_keys: the keys of inner, ascending
RECURSIVE SortedKeys(_)
SortedKeys(S) ==
  IF S = {} THEN <<>>
  ELSE LET m == CHOOSE x \in S : \A y \in S : x <= y
       IN  <<m>> \o SortedKeys(S \ {m})

VotingKeys(map) == SortedKeys(DOMAIN map)

\* Snapshot::contributions_for_voting_key
ContributionsForVotingKey(map, vk) ==
  IF vk \in DOMAIN map THEN map[vk] ELSE <<>>

Values(contribs) == [j \in 1..Len(contribs) |-> contribs[j].value]

RECURSIVE InitialsFrom(_, _, _, _)
\* One InitialUTxO per key of the map, in key order.  Yields [ok, utxos].
InitialsFrom(map, keys, discrimination, checks) ==
  IF keys = <<>> THEN [ok |-> TRUE, utxos |-> <<>>]
  ELSE
    LET vk == Head(keys)
        value == SumU64(Values(map[vk]), 0, checks)
        rest == InitialsFrom(map, Tail(keys), discrimination, checks)
    IN  IF ~value.ok \/ ~rest.ok THEN [ok |-> FALSE, utxos |-> <<>>]
        ELSE [ok |-> TRUE,
              utxos |-> <<[address |-> <<discrimination, vk>>,
                           value |-> value.val]>> \o rest.utxos]

\* Snapshot::to_block0_initials
ToBlock0Initials(map, discrimination, checks) ==
  InitialsFrom(map, VotingKeys(map), discrimination, checks)

\* ------------------------------------------------------------------ state
VARIABLES
  overflow_checks,  \* build profile: TRUE = arithmetic overflow panics
  stake_threshold,  \* the threshold from_raw_snapshot was called with
  raw_snapshot,     \* the registrations the iterator has yielded so far
  inner,            \* the fold's accumulator, then Snapshot.inner
  status,           \* "folding", "built", "exported", "panicked"
  discrimination,   \* the argument of the last to_block0_initials call
  initials          \* its result (Initial::Fund)

vars == <<overflow_checks, stake_threshold, raw_snapshot, inner, status,
          discrimination, initials>>

Init ==
  /\ overflow_checks \in BOOLEAN
  /\ stake_threshold \in Thresholds
  /\ raw_snapshot = <<>>
  /\ inner = EmptyMap
  /\ status = "folding"
  /\ discrimination = "Test"
  /\ initials = <<>>

\* The iterator of raw_snapshot.0 yields its next registration.
Yield(reg) ==
  /\ status = "folding"
  /\ raw_snapshot' = Append(raw_snapshot, reg)
  /\ UNCHANGED <<overflow_checks, stake_threshold, discrimination, initials>>

\* The iterator yields a registration the threshold filter drops.
FilterThreshold(reg) ==
  /\ Yield(reg)
  /\ ~PassesThreshold(reg, stake_threshold)
  /\ UNCHANGED <<inner, status>>

\* The iterator yields a registration the purpose filter drops.
FilterPurpose(reg) ==
  /\ Yield(reg)
  /\ PassesThreshold(reg, stake_threshold)
  /\ ~PassesPurpose(reg)
  /\ UNCHANGED <<inner, status>>

\* The fold consumes a surviving registration.
Fold(reg) ==
  /\ Yield(reg)
  /\ PassesThreshold(reg, stake_threshold)
  /\ PassesPurpose(reg)
  /\ LET r == FoldStep(inner, reg, overflow_checks)
     IN  /\ r.ok
         /\ inner' = r.acc
         /\ UNCHANGED status

\* The fold panics on a surviving registration: no Snapshot is built.
FoldPanics(reg) ==
  /\ Yield(reg)
  /\ PassesThreshold(reg, stake_threshold)
  /\ PassesPurpose(reg)
  /\ ~FoldStep(inner, reg, overflow_checks).ok
  /\ inner' = EmptyMap
  /\ status' = "panicked"

\* The iterator is exhausted: from_raw_snapshot returns the Snapshot.
Return ==
  /\ status = "folding"
  /\ status' = "built"
  /\ UNCHANGED <<overflow_checks, stake_threshold, raw_snapshot, inner,
                 discrimination, initials>>

\* to_block0_initials(&self, d) returns.
Export(d) ==
  /\ status = "built"
  /\ LET r == ToBlock0Initials(inner, d, overflow_checks)
     IN  /\ r.ok
         /\ initials' = r.utxos
  /\ discrimination' = d
  /\ status' = "exported"
  /\ UNCHANGED <<overflow_checks, stake_threshold, raw_snapshot, inner>>

\* to_block0_initials(&self, d) panics while summing a key's values.
ExportPanics(d) ==
  /\ status = "built"
  /\ ~ToBlock0Initials(inner, d, overflow_checks).ok
  /\ discrimination' = d
  /\ status' = "export_panicked"
  /\ UNCHANGED <<overflow_checks, stake_threshold, raw_snapshot, inner,
                 initials>>

Next ==
  \/ /\ Len(raw_snapshot) < MaxRegs
     /\ \E reg \in FewRegistrations : FilterThreshold(reg)
  \/ /\ Len(raw_snapshot) < MaxRegs
     /\ \E reg \in FewRegistrations : FilterPurpose(reg)
  \/ /\ Len(raw_snapshot) < MaxRegs
     /\ \E reg \in FewRegistrations : Fold(reg)
  \/ /\ Len(raw_snapshot) < MaxRegs
     /\ \E reg \in FewRegistrations : FoldPanics(reg)
  \/ Return
  \/ \E d \in Discriminations : Export(d)
  \/ \E d \in Discriminations : ExportPanics(d)

\* The sum of one registration's contributions to a key is at most its
\* voting power, so to_block0_initials cannot overflow here (OneExportTotal).
NextOne ==
  \/ /\ raw_snapshot = <<>>
     /\ \E reg \in AllRegistrations : FilterThreshold(reg)
  \/ /\ raw_snapshot = <<>>
     /\ \E reg \in AllRegistrations : FilterPurpose(reg)
  \/ /\ raw_snapshot = <<>>
     /\ \E reg \in AllRegistrations : Fold(reg)
  \/ /\ raw_snapshot = <<>>
     /\ \E reg \in AllRegistrations : FoldPanics(reg)
  \/ Return
  \/ \E d \in Discriminations : Export(d)

\* Raw snapshots of up to MaxRegs registrations.
Spec == Init /\ [][Next]_vars

\* Raw snapshots of one registration, of any voting power and delegation.
SpecOne == Init /\ [][NextOne]_vars

\* ------------------------------------------------ vocabulary of the claims
\* Exact (unbounded) arithmetic, used to state what the results should be.
RECURSIVE SumSeq(_)
SumSeq(s) == IF s = <<>> THEN 0 ELSE Head(s) + SumSeq(Tail(s))

RECURSIVE SumOverKeys(_, _)
SumOverKeys(map, keys) ==
  IF keys = {} THEN 0
  ELSE LET k == CHOOSE x \in keys : TRUE
       IN  SumSeq(Values(map[k])) + SumOverKeys(map, keys \ {k})

\* the total of all contribution values of a map
ContributionTotal(map) == SumOverKeys(map, DOMAIN map)

\* the registration is one the claims call eligible under threshold t
Eligible(reg, t) ==
  reg.voting_power >= t /\ reg.voting_purpose = CATALYST_VOTING_PURPOSE_TAG

IsEligible(reg) == Eligible(reg, stake_threshold)
IsNew(reg) == reg.delegations.tag = "New"
IsLegacy(reg) == reg.delegations.tag = "Legacy"

\* the voting powers of the eligible registrations yielded so far
SurvivorPowers ==
  LET kept == SelectSeq(raw_snapshot, IsEligible)
  IN  [j \in 1..Len(kept) |-> kept[j].voting_power]

\* from_raw_snapshot has returned a Snapshot
HasSnapshot == status \in {"built", "exported", "export_panicked"}

\* the raw snapshot is the single registration the fold has consumed
OneYielded == Len(raw_snapshot) = 1

\* the permutations of a sequence
PermutationsOf(s) ==
  {[j \in 1..Len(s) |-> s[f[j]]] : f \in Permutations(1..Len(s))}

CountIn(s, x) == Cardinality({j \in 1..Len(s) : s[j] = x})

\* two contribution lists hold the same contributions, each as often
SameContributions(s, t) ==
  /\ Len(s) = Len(t)
  /\ \A j \in 1..Len(s) : CountIn(s, s[j]) = CountIn(t, s[j])

\* what a weighted delegation is to give each of its entries, exactly
ExactShares(reg) ==
  LET vks == reg.delegations.vks
      n == Len(vks)
      total_weight == SumSeq([j \in 1..n |-> vks[j][2]])
      floor == [j \in 1..n |->
                  (reg.voting_power * vks[j][2]) \div total_weight]
  IN  [j \in 1..n |->
         [vk |-> vks[j][1],
          value |-> IF j < n THEN floor[j]
                    ELSE reg.voting_power
                           - SumSeq([i \in 1..(n - 1) |-> floor[i]])]]

\* the map those shares make: entries of share 0 record nothing
ExactDistribution(reg) ==
  LET shares == ExactShares(reg)
      keys == {shares[j].vk : j \in {i \in 1..Len(shares) : shares[i].value # 0}}
  IN  [k \in keys |->
         LET mine == SelectSeq(shares, LAMBDA e : e.vk = k /\ e.value # 0)
         IN  [j \in 1..Len(mine) |->
                KeyContribution(reg.reward_address, mine[j].value)]]

\* --------------------------------------------------------------- lemmas
\* to_block0_initials never panics on a snapshot of one registration.
OneExportTotal ==
  status = "built" =>
    \A d \in Discriminations : ToBlock0Initials(inner, d, overflow_checks).ok

\* The contributions of the map add up to the voting powers of the
\* registrations folded so far, in both build profiles.
InnerTotalPreserved ==
  status # "panicked" => ContributionTotal(inner) = SumSeq(SurvivorPowers)

\* The state the actions build is the value of from_raw_snapshot.
StateIsFromRawSnapshot ==
  LET direct == FromRawSnapshot(raw_snapshot, stake_threshold, overflow_checks)
  IN  /\ (status = "panicked") = ~direct.ok
      /\ inner = direct.inner

\* The only step of the builder that leaves the u64 range is the product
\* voting_power * weight of an entry that is not the last: the sum of the
\* weights, the division, the sum of the shares and the subtraction do not.
OnlyProductOverflows ==
  (OneYielded
     /\ ~FromRawSnapshot(raw_snapshot, stake_threshold, TRUE).ok) =>
    LET reg == raw_snapshot[1]
        vks == reg.delegations.vks
    IN  /\ IsNew(reg)
        /\ \E j \in 1..(Len(vks) - 1) : reg.voting_power * vks[j][2] > U64Max

\* --------------------------------------------------------------- claims

\* C1 (as claimed): after any prefix of the input the contribution values
\* of the map add up to the voting powers of the surviving registrations,
\* and so do the amounts to_block0_initials exports.
C1_SumPreservation ==
  /\ status # "panicked" => ContributionTotal(inner) = SumSeq(SurvivorPowers)
  /\ status = "exported" =>
       SumSeq([j \in 1..Len(initials) |-> initials[j].value])
         = SumSeq(SurvivorPowers)

\* C2 (as claimed): the registration has a contribution in the Snapshot
\* if and only if it is eligible, for every voting power, 0 included.
C2_InclusionIffEligible ==
  (OneYielded /\ status # "panicked") =>
    ((inner # EmptyMap) <=> IsEligible(raw_snapshot[1]))

\* C2 (amended): the registration has a contribution in the Snapshot if and
\* only if it is eligible and either its delegation is legacy or its voting
\* power is not 0; an eligible registration never leaves the map empty for
\* another reason.
C2_InclusionIffEligibleAndNonZero ==
  (OneYielded /\ status # "panicked") =>
    LET reg == raw_snapshot[1]
    IN  (inner # EmptyMap)
          <=> (IsEligible(reg) /\ (IsLegacy(reg) \/ reg.voting_power > 0))

\* an eligible weighted registration of voting power 0 was built into a
\* Snapshot, which holds nothing
C2_Witness ==
  /\ OneYielded /\ HasSnapshot
  /\ IsEligible(raw_snapshot[1]) /\ IsNew(raw_snapshot[1])
  /\ raw_snapshot[1].voting_power = 0
  /\ inner = EmptyMap

\* C3: building from R with threshold T equals building from R without the
\* registrations of voting power < T, with threshold T and, once its stored
\* threshold is set to T, with threshold 0; the Snapshot the fold built is
\* that Snapshot.
C3_ThresholdCorrectness ==
  LET filtered == SelectSeq(raw_snapshot,
                    LAMBDA reg : reg.voting_power >= stake_threshold)
      direct == FromRawSnapshot(raw_snapshot, stake_threshold, overflow_checks)
      again == FromRawSnapshot(filtered, stake_threshold, overflow_checks)
      zero == FromRawSnapshot(filtered, 0, overflow_checks)
  IN  /\ direct = again
      /\ direct = [zero EXCEPT !.stake_threshold = stake_threshold]
      /\ (status = "panicked") = ~zero.ok
      /\ inner = zero.inner

\* a Snapshot built with threshold 3 from a registration of voting power 3
\* (kept) and one of voting power 1 (dropped)
C3_Witness ==
  /\ HasSnapshot /\ stake_threshold = 3 /\ Len(raw_snapshot) = 2
  /\ raw_snapshot[1].voting_power = 3 /\ IsEligible(raw_snapshot[1])
  /\ raw_snapshot[2].voting_power = 1
  /\ inner # EmptyMap

\* C4: registrations of another voting purpose contribute nothing: the
\* Snapshot equals the one built from the input without them, and the one
\* built from the empty input when there are no others.
C4_PurposeFiltering ==
  LET catalyst == SelectSeq(raw_snapshot,
                    LAMBDA reg : reg.voting_purpose = CATALYST_VOTING_PURPOSE_TAG)
      direct == FromRawSnapshot(raw_snapshot, stake_threshold, overflow_checks)
      without == FromRawSnapshot(catalyst, stake_threshold, overflow_checks)
  IN  /\ direct = without
      /\ (status = "panicked") = ~without.ok
      /\ inner = without.inner
      /\ catalyst = <<>> =>
           /\ status # "panicked"
           /\ inner = EmptyMap
           /\ direct = FromRawSnapshot(<<>>, stake_threshold, overflow_checks)

\* a Snapshot built from a registration of another purpose, above the
\* threshold, followed by a Catalyst registration that contributed
C4_Witness ==
  /\ HasSnapshot /\ Len(raw_snapshot) = 2
  /\ raw_snapshot[1].voting_purpose # CATALYST_VOTING_PURPOSE_TAG
  /\ raw_snapshot[1].voting_power >= stake_threshold
  /\ IsEligible(raw_snapshot[2])
  /\ inner # EmptyMap

\* C5 (as claimed): a surviving weighted registration gives every entry but
\* the last floor(voting_power * weight / total_weight), nothing when that
\* is 0, and the last entry the rest, nothing when that is 0.
C5_RemainderToLast ==
  (OneYielded /\ status # "panicked"
     /\ IsEligible(raw_snapshot[1]) /\ IsNew(raw_snapshot[1])) =>
    inner = ExactDistribution(raw_snapshot[1])

\* C6 (as claimed): a weighted delegation of one entry builds the Snapshot
\* the legacy delegation to that key builds, for every voting power.
C6_SingleDelegateEquivalence ==
  (OneYielded /\ IsNew(raw_snapshot[1])
     /\ Len(raw_snapshot[1].delegations.vks) = 1) =>
    LET reg == raw_snapshot[1]
        legacy == [reg EXCEPT !.delegations = Legacy(reg.delegations.vks[1][1])]
        built == FromRawSnapshot(<<legacy>>, stake_threshold, overflow_checks)
    IN  /\ status # "panicked"
        /\ inner = built.inner

\* C6 (amended): a weighted delegation of one entry builds the Snapshot the
\* legacy delegation to that key builds when the voting power is not 0;
\* with voting power 0 and eligible, it records nothing while the legacy
\* delegation records one contribution of value 0.
C6_SingleDelegateEquivalenceNonZero ==
  (OneYielded /\ IsNew(raw_snapshot[1])
     /\ Len(raw_snapshot[1].delegations.vks) = 1) =>
    LET reg == raw_snapshot[1]
        vk == reg.delegations.vks[1][1]
        legacy == [reg EXCEPT !.delegations = Legacy(vk)]
        built == FromRawSnapshot(<<legacy>>, stake_threshold, overflow_checks)
    IN  /\ status # "panicked"
        /\ built.ok
        /\ reg.voting_power > 0 => inner = built.inner
        /\ (reg.voting_power > 0 /\ IsEligible(reg)) =>
             inner = [k \in {vk} |->
                        <<KeyContribution(reg.reward_address, reg.voting_power)>>]
        /\ (reg.voting_power = 0 /\ IsEligible(reg)) =>
             /\ inner = EmptyMap
             /\ built.inner =
                  [k \in {vk} |-> <<KeyContribution(reg.reward_address, 0)>>]

\* a Snapshot built from an eligible one-entry weighted delegation of the
\* largest voting power and a weight above 1
C6_Witness ==
  /\ OneYielded /\ HasSnapshot
  /\ IsNew(raw_snapshot[1]) /\ IsEligible(raw_snapshot[1])
  /\ Len(raw_snapshot[1].delegations.vks) = 1
  /\ raw_snapshot[1].delegations.vks[1][2] > 1
  /\ raw_snapshot[1].voting_power = U64Max
  /\ inner # EmptyMap

\* C7 (as claimed): to_block0_initials emits one record per key of the
\* Snapshot, in ascending key order, with the given discrimination, whose
\* amount is the sum of the key's contribution values.
C7_ExportCorrectness ==
  status = "exported" =>
    /\ Len(initials) = Cardinality(DOMAIN inner)
    /\ \A i, j \in 1..Len(initials) :
         i < j => initials[i].address[2] < initials[j].address[2]
    /\ \A j \in 1..Len(initials) :
         /\ initials[j].address[1] = discrimination
         /\ initials[j].address[2] \in DOMAIN inner
         /\ initials[j].value = SumSeq(Values(inner[initials[j].address[2]]))

\* C8 (as claimed): every permutation of the raw snapshot builds an equal
\* Snapshot.
C8_OrderIndependence ==
  \A permuted \in PermutationsOf(raw_snapshot) :
    LET other == FromRawSnapshot(permuted, stake_threshold, overflow_checks)
    IN  /\ other.ok = (status # "panicked")
        /\ other.inner = inner

\* C8 (amended): every permutation of the raw snapshot builds a Snapshot
\* with the same keys and, for each key, the same contributions each as
\* often (in an order that follows the input's), and therefore exports the
\* same to_block0_initials; it panics if and only if the original does.
C8_OrderIndependenceUpToOrder ==
  \A permuted \in PermutationsOf(raw_snapshot) :
    LET other == FromRawSnapshot(permuted, stake_threshold, overflow_checks)
    IN  /\ other.ok = (status # "panicked")
        /\ DOMAIN other.inner = DOMAIN inner
        /\ \A k \in DOMAIN inner : SameContributions(other.inner[k], inner[k])
        /\ \A d \in Discriminations :
             ToBlock0Initials(other.inner, d, overflow_checks)
               = ToBlock0Initials(inner, d, overflow_checks)

\* a Snapshot built from two registrations that give different
\* contributions to the same key, one of them through a weighted delegation
C8_Witness ==
  /\ HasSnapshot /\ Len(raw_snapshot) = 2
  /\ IsNew(raw_snapshot[1]) /\ IsLegacy(raw_snapshot[2])
  /\ 1 \in DOMAIN inner /\ Len(inner[1]) = 2
  /\ inner[1][1] # inner[1][2]

\* C9 (as claimed): on well-formed input the builder returns a Snapshot and
\* no arithmetic step leaves the unsigned 64-bit range: the build with
\* overflow checks does not panic either.
C9_BuilderCannotFail ==
  /\ status # "panicked"
  /\ FromRawSnapshot(raw_snapshot, stake_threshold, TRUE).ok

\* C10 (as claimed): with threshold 0, a single Catalyst registration of
\* voting power 0 builds a Snapshot whose delegated key holds exactly one
\* contribution of value 0, whatever the delegation form.
C10_ZeroPowerKeyPresent ==
  (OneYielded /\ HasSnapshot /\ stake_threshold = 0
     /\ raw_snapshot[1].voting_power = 0
     /\ raw_snapshot[1].voting_purpose = CATALYST_VOTING_PURPOSE_TAG) =>
    LET reg == raw_snapshot[1]
        vk == IF IsLegacy(reg) THEN reg.delegations.vk
              ELSE reg.delegations.vks[Len(reg.delegations.vks)][1]
        zero == <<KeyContribution(reg.reward_address, 0)>>
    IN  /\ VotingKeys(inner) = <<vk>>
        /\ ContributionsForVotingKey(inner, vk) = zero
        /\ status = "exported" =>
             initials = <<[address |-> <<discrimination, vk>>, value |-> 0]>>

\* C10 (amended): with threshold 0, a single Catalyst registration of
\* voting power 0 with a legacy delegation builds a Snapshot whose key
\* holds exactly one contribution of value 0 and exports one record of
\* value 0; with a weighted delegation it builds an empty Snapshot: no key
\* is listed, every lookup is empty and nothing is exported.
C10_ZeroPowerLegacyOnly ==
  (OneYielded /\ HasSnapshot /\ stake_threshold = 0
     /\ raw_snapshot[1].voting_power = 0
     /\ raw_snapshot[1].voting_purpose = CATALYST_VOTING_PURPOSE_TAG) =>
    LET reg == raw_snapshot[1]
        vk == reg.delegations.vk
        zero == <<KeyContribution(reg.reward_address, 0)>>
    IN  /\ IsLegacy(reg) =>
             /\ VotingKeys(inner) = <<vk>>
             /\ ContributionsForVotingKey(inner, vk) = zero
             /\ \A k \in Keys \ {vk} : ContributionsForVotingKey(inner, k) = <<>>
             /\ status = "exported" =>
                  initials = <<[address |-> <<discrimination, vk>>, value |-> 0]>>
        /\ IsNew(reg) =>
             /\ VotingKeys(inner) = <<>>
             /\ \A k \in Keys : ContributionsForVotingKey(inner, k) = <<>>
             /\ status = "exported" => initials = <<>>

\* the Snapshot of a legacy registration of voting power 0 was exported
C10_Witness ==
  /\ OneYielded /\ status = "exported" /\ stake_threshold = 0
  /\ raw_snapshot[1].voting_power = 0 /\ IsEligible(raw_snapshot[1])
  /\ IsLegacy(raw_snapshot[1])
  /\ Len(initials) = 1

====
